---- MODULE Spec2Model ----
(***************************************************************************)
(* DeepSeekOpenRouterEngine (src/textgrad/engine/deepseek.py): an engine   *)
(* that answers a prompt from a persistent cache or, on a miss, from one   *)
(* HTTP POST to the chat-completions endpoint, wrapped in tenacity's       *)
(* @retry(stop=stop_after_attempt(5)).                                     *)
(*                                                                         *)
(* Python strings are sequences of symbols (a symbol is a character or an  *)
(* opaque fragment of text), so that + is \o and "" is <<>>.  Python's     *)
(* None is the value None below, which is no string of the model.  JSON    *)
(* numbers and other opaque values are TLA+ strings holding the literal.   *)
(***************************************************************************)
EXTENDS Naturals, Sequences, FiniteSets, TLC

(* ------------------------------ bounds -------------------------------- *)

\* Longest prompt / system-prompt override a caller passes.
MaxLen == 1
\* Number of generate / __call__ invocations in one behaviour.
MaxCalls == 2

(* --------------------------- value domains ---------------------------- *)

None == <<"None">>
EmptyDict == [x \in {} |-> x]

Chars == {"a"}
RECURSIVE StrUpTo(_)
StrUpTo(n) ==
    IF n = 0 THEN {<<>>}
    ELSE LET S == StrUpTo(n - 1)
         IN  S \cup {Append(s, c) : s \in {t \in S : Len(t) = n - 1}, c \in Chars}
Str == StrUpTo(MaxLen)

\* Python truthiness of an Optional[str], and the value of `a or b`.
Truthy(a) == a /= None /\ a /= <<>>
PyOr(a, b) == IF Truthy(a) THEN a ELSE b

\* {**a, **b}: the keys of b override those of a.
DictMerge(a, b) ==
    [k \in DOMAIN a \cup DOMAIN b |-> IF k \in DOMAIN b THEN b[k] ELSE a[k]]
DictWithout(d, keys) == [k \in DOMAIN d \ keys |-> d[k]]
\* dict.get(key, default)
DictGet(d, k, default) == IF k \in DOMAIN d THEN d[k] ELSE default

(* ----------------------------- constants ------------------------------ *)

DEFAULT_SYSTEM_PROMPT == <<"You are a helpful, creative, and smart assistant.">>
DefaultModelString == <<"deepseek", "/", "deepseek-chat-v3-0324:free">>
StopAfterAttempt == 5
RequestTimeout == 30

(* ------------------------------ the cache ----------------------------- *)

\* CachedEngine.__init__ : opens the store at cache_path, creating it when
\* it does not exist yet.
OpenCache(d, path) == IF path \in DOMAIN d THEN d ELSE (path :> EmptyDict) @@ d
\* CachedEngine._check_cache : get(key) -> value option.
check_cache(store, key) == IF key \in DOMAIN store THEN store[key] ELSE None
\* CachedEngine._save_cache : put(key, value).
save_cache(store, key, value) == (key :> value) @@ store

(* ------------------------------ __init__ ------------------------------ *)

\* model_string.replace('/', '_')
ReplaceSlash(s) == [i \in 1..Len(s) |-> IF s[i] = "/" THEN "_" ELSE s[i]]
\* os.path.join(user_cache_dir("textgrad"), f"cache_deepseek_{...}.db")
CachePath(model_string) ==
    <<"<user_cache_dir>", "/", "textgrad", "/", "cache_deepseek_">>
        \o ReplaceSlash(model_string) \o <<".db">>

ResolveApiKey(api_key, env) == PyOr(api_key, env)

\* Mutant: the routing headers are passed on without their defaults.
Headers_NoDefaults(api_key, site_url, site_name) ==
    [Authorization |-> <<"Bearer ">> \o api_key,
     ContentType   |-> <<"application/json">>,
     HTTPReferer   |-> site_url,
     XTitle        |-> site_name]
Headers(api_key, site_url, site_name) ==
    [Authorization |-> <<"Bearer ">> \o api_key,
     ContentType   |-> <<"application/json">>,
     HTTPReferer   |-> PyOr(site_url, <<"https://example.com">>),
     XTitle        |-> PyOr(site_name, <<"TextGrad App">>)]

DefaultParams(kwargs) ==
    [temperature |-> DictGet(kwargs, "temperature", "0.7"),
     max_tokens  |-> DictGet(kwargs, "max_tokens", "1024"),
     top_p       |-> DictGet(kwargs, "top_p", "1.0")]

NoEngine ==
    [model_string |-> None, system_prompt |-> None, api_key |-> None,
     base_url |-> None, headers |-> EmptyDict, default_params |-> EmptyDict,
     cache_path |-> None]

NewEngine(model_string, system_prompt, key, site_url, site_name, kwargs) ==
    [model_string   |-> model_string,
     system_prompt  |-> system_prompt,
     api_key        |-> key,
     base_url       |-> <<"https://openrouter.ai/api/v1">>,
     headers        |-> Headers(key, site_url, site_name),
     default_params |-> DefaultParams(kwargs),
     cache_path     |-> CachePath(model_string)]

(* ------------------------------ generate ------------------------------ *)

\* Binding of generate(self, prompt, system_prompt=None, **kwargs): a
\* system_prompt keyword is the named parameter, every other keyword is in
\* kwargs.
SystemPromptArg(kw) == DictGet(kw, "system_prompt", None)
ExtraKwargs(kw) == DictWithout(kw, {"system_prompt"})

\* sys_prompt = system_prompt or self.system_prompt
EffectiveSystemPrompt(system_prompt, default) == PyOr(system_prompt, default)

\* Mutant: the key leaves the system prompt out.
CacheKey_PromptOnly(sys_prompt, prompt) == prompt
\* cache_key = sys_prompt + prompt
CacheKey(sys_prompt, prompt) == sys_prompt \o prompt

\* Mutants: `if cached_response:`, and a lookup that never hits.
CacheHit_Truthy(cached_response) == Truthy(cached_response)
CacheHit_Never(cached_response) == FALSE
\* if cached_response is not None
CacheHit(cached_response) == cached_response /= None

Messages(sys_prompt, prompt) ==
    <<[role |-> "system", content |-> sys_prompt],
      [role |-> "user", content |-> prompt]>>

\* Mutant: {**kwargs, **self.default_params}, the defaults win.
Payload_DefaultsWin(model_string, sys_prompt, prompt, default_params, kwargs) ==
    DictMerge(
        DictMerge([model |-> model_string, messages |-> Messages(sys_prompt, prompt)],
                  kwargs),
        default_params)
\* payload = {"model": ..., "messages": [...], **self.default_params, **kwargs}
Payload(model_string, sys_prompt, prompt, default_params, kwargs) ==
    DictMerge(
        DictMerge([model |-> model_string, messages |-> Messages(sys_prompt, prompt)],
                  default_params),
        kwargs)

Request(base_url, headers, payload) ==
    [url     |-> base_url \o <<"/chat/completions">>,
     headers |-> headers,
     json    |-> payload,
     timeout |-> RequestTimeout]

(* What one requests.post can come back with.  kind "exception": the POST   *)
(* itself raises a RequestException that carries no response (connection     *)
(* error, timeout).  kind "response": an HTTP response with a status, a      *)
(* body text and, for a JSON body, the contents of its choices list.         *)
ConnectionFailure ==
    [kind |-> "exception", status |-> 0, text |-> <<>>, choices |-> <<>>,
     err |-> <<"Connection refused">>]
HttpResponse(status, text, choices) ==
    [kind |-> "response", status |-> status, text |-> text, choices |-> choices,
     err |-> <<>>]

TextEmpty == <<>>
TextX == <<"x">>
TextY == <<"y">>

\* choices[0].message.content is a text (generate -> str), possibly empty.
GoodResponses ==
    {HttpResponse(200, <<"{json}">>, ch) : ch \in {<<TextEmpty>>, <<TextX, TextY>>}}
\* A 2xx body whose choices list is empty: choices[0] raises IndexError.
MalformedResponse == HttpResponse(200, <<"{json}">>, <<>>)
ErrorResponses == {HttpResponse(500, <<"overloaded">>, <<>>)}
Outcomes ==
    {ConnectionFailure} \cup ErrorResponses \cup {MalformedResponse} \cup GoodResponses

\* response.raise_for_status(): raises HTTPError for 400 <= status < 600.
RaisesForStatus(r) == r.status >= 400 /\ r.status < 600
\* bool(response) is response.ok: true unless raise_for_status would raise.
ResponseTruthy(r) == ~RaisesForStatus(r)
\* str(e) of the RequestException an outcome gives rise to.
StrRequestException(out) ==
    IF out.kind = "exception" THEN out.err
    ELSE <<ToString(out.status), " Server Error for url: ">>

\* result["choices"][0]["message"]["content"]
GeneratedText(r) == r.choices[1]

NoExc == [type |-> "None", msg |-> <<>>]

\* The except clause: RuntimeError(error_msg).
RuntimeErrorOf(out) ==
    LET base == <<"DeepSeek API Error: ">> \o StrRequestException(out)
        has_response == out.kind = "response" /\ ResponseTruthy(out)
    IN  [type |-> "RuntimeError",
         msg  |-> IF has_response
                  THEN base \o <<" | Status: ", ToString(out.status), " | Response: ">>
                            \o out.text
                  ELSE base]

IndexErrorExc == [type |-> "IndexError", msg |-> <<"list index out of range">>]

\* The try block raises: the POST, raise_for_status or the extraction.
AttemptFails(out) ==
    out.kind = "exception" \/ RaisesForStatus(out) \/ out.choices = <<>>

\* Mutant: the body is cached before raise_for_status and the extraction.
DiskAfter_SaveFirst(d, path, key, out) ==
    IF out.kind = "exception" THEN d
    ELSE [d EXCEPT ![path] = save_cache(@, key, IF out.choices = <<>> THEN out.text
                                                ELSE GeneratedText(out))]
\* Mutant: the store is rewritten with the new entry alone.
DiskAfter_Replace(d, path, key, out) ==
    IF AttemptFails(out) THEN d
    ELSE [d EXCEPT ![path] = (key :> GeneratedText(out))]
\* The store after an attempt that posted: _save_cache is reached only when
\* nothing in the try block raised.
DiskAfter(d, path, key, out) ==
    IF AttemptFails(out) THEN d
    ELSE [d EXCEPT ![path] = save_cache(@, key, GeneratedText(out))]

\* What identifies the request a cached text answers: the model and the two
\* messages of its payload.
RequestIdentity(payload) ==
    [model  |-> payload["model"],
     system |-> payload["messages"][1].content,
     user   |-> payload["messages"][2].content]

\* Mutant: @retry without a stop condition.
ShouldStop_Never(attempt) == FALSE
\* Mutants: giving up one attempt early, and one attempt late.
ShouldStop_Early(attempt) == attempt >= StopAfterAttempt - 1
ShouldStop_Late(attempt) == attempt > StopAfterAttempt
\* tenacity: stop_after_attempt(5)
ShouldStop(attempt) == attempt >= StopAfterAttempt
\* tenacity: retry defaults to retry_if_exception_type(Exception)
ShouldRetry(e) == e.type /= "None"
\* tenacity without reraise=True: RetryError(last_attempt), whose str() is
\* "RetryError[<Future at 0x... state=finished raised RuntimeError>]"
RetryErrorOf(e) ==
    [type |-> "RetryError",
     msg  |-> <<"RetryError[<Future state=finished raised ", e.type, ">]">>]

\* Mutant: __call__ keeps a system_prompt keyword to itself.
CallKwargs_DropSystemPrompt(kw) == DictWithout(kw, {"system_prompt"})
\* __call__(self, prompt, **kwargs): return self.generate(prompt, **kwargs)
CallKwargs(kw) == kw

(* ------------------------------- state -------------------------------- *)

VARIABLES
    obj,            \* "none" | "ready" | "failed": outcome of the constructor
    ctor_args,      \* the arguments the constructor was called with
    engine,         \* the instance's fields
    ctor_exc,       \* the exception the constructor raised
    disk,           \* cache path -> store (key -> text) of every store on disk
    origin,         \* cache path -> key -> the request whose response was stored
    pc,             \* "idle" | "sleeping" | "returned" | "raised"
    ncalls,         \* calls made so far
    via,            \* "generate" | "__call__": entry point of the current call
    prompt,         \* prompt of the current call
    kw,             \* keyword arguments the caller passed
    attempt_number, \* tenacity's attempt counter
    posts,          \* requests.post invocations of the current call
    waits,          \* backoff sleeps of the current call
    sys_prompt,     \* local sys_prompt of the last attempt
    cache_key,      \* local cache_key of the last attempt
    request,        \* the last request handed to requests.post
    response,       \* what that POST came back with
    exc,            \* exception of the last attempt / reaching the caller
    result          \* returned text

vars == <<obj, ctor_args, engine, ctor_exc, disk, origin, pc, ncalls, via, prompt, kw, attempt_number,
          posts, waits, sys_prompt, cache_key, request, response, exc, result>>

callvars == <<pc, ncalls, via, prompt, kw, attempt_number, posts, waits,
              sys_prompt, cache_key, request, response, exc, result>>

NoRequest == [url |-> None, headers |-> EmptyDict, json |-> EmptyDict, timeout |-> 0]
NoResponse == [kind |-> "none", status |-> 0, text |-> <<>>, choices |-> <<>>, err |-> <<>>]

(* ------------------------------- inputs ------------------------------- *)

\* The constructor calls a behaviour chooses from: the credential missing
\* (None or "" with no environment variable), given as argument, or taken
\* from the environment; each routing header given or defaulted; the default
\* and an empty instance system prompt; with and without generation-parameter
\* keywords.
CtorArgs(system_prompt, api_key, env, site_url, site_name, kwargs) ==
    [model_string |-> DefaultModelString, system_prompt |-> system_prompt,
     api_key |-> api_key, env |-> env, site_url |-> site_url,
     site_name |-> site_name, kwargs |-> kwargs]
NoCtorArgs ==
    [model_string |-> None, system_prompt |-> None, api_key |-> None, env |-> None,
     site_url |-> None, site_name |-> None, kwargs |-> EmptyDict]
CtorCalls ==
    {CtorArgs(DEFAULT_SYSTEM_PROMPT, None, None, None, None, EmptyDict),
     CtorArgs(DEFAULT_SYSTEM_PROMPT, <<>>, None, <<"https://my.site">>, None, EmptyDict),
     CtorArgs(DEFAULT_SYSTEM_PROMPT, <<"sk-arg">>, <<"sk-env">>, <<"https://my.site">>,
              None, [temperature |-> "0.2", top_p |-> "0.9"]),
     CtorArgs(<<>>, <<>>, <<"sk-env">>, <<>>, <<"My App">>, EmptyDict)}

\* Keyword arguments of a call: generation parameters (one overriding a
\* default, one that has no default), a system_prompt, or both.
GenKwargs == {EmptyDict, [temperature |-> "0.0", stop |-> "END"]}
CallKws ==
    GenKwargs \cup {[system_prompt |-> s] : s \in {<<>>, <<"a">>}}
        \cup {[temperature |-> "0.0", system_prompt |-> <<"a">>]}

Store == disk[engine.cache_path]

(* ------------------------------- actions ------------------------------ *)

Init ==
    /\ obj = "none"
    /\ ctor_args = NoCtorArgs
    /\ engine = NoEngine
    /\ ctor_exc = NoExc
    /\ disk = EmptyDict
    /\ origin = EmptyDict
    /\ pc = "idle"
    /\ ncalls = 0
    /\ via = "none"
    /\ prompt = <<>>
    /\ kw = EmptyDict
    /\ attempt_number = 0
    /\ posts = 0
    /\ waits = 0
    /\ sys_prompt = None
    /\ cache_key = None
    /\ request = NoRequest
    /\ response = NoResponse
    /\ exc = NoExc
    /\ result = None

\* The body of DeepSeekOpenRouterEngine.__init__.
CtorBody(model_string, system_prompt, api_key, env, site_url, site_name, kwargs) ==
    /\ ctor_args' = [model_string |-> model_string, system_prompt |-> system_prompt,
                     api_key |-> api_key, env |-> env, site_url |-> site_url,
                     site_name |-> site_name, kwargs |-> kwargs]
    /\ disk' = OpenCache(disk, CachePath(model_string))
    /\ origin' = OpenCache(origin, CachePath(model_string))
    /\ LET key == ResolveApiKey(api_key, env)
       IN  IF ~Truthy(key)
           THEN /\ obj' = "failed"
                /\ ctor_exc' = [type |-> "ValueError",
                                msg |-> <<"OpenRouter API key is required. ">>]
                /\ UNCHANGED engine
           ELSE /\ obj' = "ready"
                /\ engine' = NewEngine(model_string, system_prompt, key,
                                       site_url, site_name, kwargs)
                /\ UNCHANGED ctor_exc

\* DeepSeekOpenRouterEngine.__init__
Construct(model_string, system_prompt, api_key, env, site_url, site_name, kwargs) ==
    /\ obj = "none"
    /\ CtorBody(model_string, system_prompt, api_key, env, site_url, site_name, kwargs)
    /\ UNCHANGED callvars

\* A further adapter is constructed on the same disk (another instance, or
\* the next run of the process) and is the one called from now on.
NewAdapter(model_string, system_prompt, api_key, env, site_url, site_name, kwargs) ==
    /\ obj = "ready"
    /\ pc \in {"idle", "returned", "raised"}
    /\ model_string /= engine.model_string
    /\ CtorBody(model_string, system_prompt, api_key, env, site_url, site_name, kwargs)
    \* no call of the new instance has been made yet
    /\ pc' = "idle"
    /\ via' = "none"
    /\ prompt' = <<>>
    /\ kw' = EmptyDict
    /\ attempt_number' = 0
    /\ posts' = 0
    /\ waits' = 0
    /\ sys_prompt' = None
    /\ cache_key' = None
    /\ exc' = NoExc
    /\ result' = None
    /\ UNCHANGED <<ncalls, request, response>>

\* One attempt of generate's body under tenacity: attempt number n of a call
\* with prompt p and keywords k, np POSTs and nw sleeps made so far, out being
\* what the POST comes back with if one is made.
Attempt(p, k, n, np, nw, out) ==
    LET sp     == EffectiveSystemPrompt(SystemPromptArg(k), engine.system_prompt)
        key    == CacheKey(sp, p)
        cached == check_cache(Store, key)
        payload == Payload(engine.model_string, sp, p, engine.default_params,
                           ExtraKwargs(k))
        failed == AttemptFails(out)
        e == IF out.kind = "exception" \/ RaisesForStatus(out)
             THEN RuntimeErrorOf(out) ELSE IndexErrorExc
    IN  /\ sys_prompt' = sp
        /\ cache_key' = key
        /\ IF CacheHit(cached)
           THEN /\ pc' = "returned"
                /\ result' = cached
                /\ attempt_number' = n
                /\ posts' = np
                /\ waits' = nw
                /\ exc' = NoExc
                /\ UNCHANGED <<disk, origin, request, response>>
           ELSE /\ posts' = np + 1
                /\ request' = Request(engine.base_url, engine.headers, payload)
                /\ response' = out
                /\ disk' = DiskAfter(disk, engine.cache_path, key, out)
                /\ origin' = IF failed THEN origin
                             ELSE [origin EXCEPT ![engine.cache_path] =
                                       (key :> RequestIdentity(payload)) @@ @]
                /\ IF ~failed
                   THEN /\ pc' = "returned"
                        /\ result' = GeneratedText(out)
                        /\ exc' = NoExc
                        /\ attempt_number' = n
                        /\ waits' = nw
                   ELSE /\ result' = None
                        /\ attempt_number' = n
                        /\ IF ShouldRetry(e) /\ ~ShouldStop(n)
                           THEN /\ pc' = "sleeping"
                                /\ exc' = e
                                /\ waits' = nw + 1
                           ELSE /\ pc' = "raised"
                                /\ exc' = RetryErrorOf(e)
                                /\ waits' = nw

\* A caller invokes generate(prompt, **kw): the first attempt runs.
Generate(p, k, out) ==
    /\ obj = "ready"
    /\ pc \in {"idle", "returned", "raised"}
    /\ ncalls < MaxCalls
    /\ ncalls' = ncalls + 1
    /\ via' = "generate"
    /\ prompt' = p
    /\ kw' = k
    /\ Attempt(p, k, 1, 0, 0, out)
    /\ UNCHANGED <<obj, ctor_args, engine, ctor_exc>>

\* A caller invokes the instance: __call__(prompt, **kw).
Call(p, k, out) ==
    /\ obj = "ready"
    /\ pc \in {"idle", "returned", "raised"}
    /\ ncalls < MaxCalls
    /\ ncalls' = ncalls + 1
    /\ via' = "__call__"
    /\ prompt' = p
    /\ kw' = k
    /\ Attempt(p, CallKwargs(k), 1, 0, 0, out)
    /\ UNCHANGED <<obj, ctor_args, engine, ctor_exc>>

\* tenacity wakes up from the backoff sleep and calls generate's body again.
Retry(out) ==
    /\ pc = "sleeping"
    /\ Attempt(prompt, IF via = "__call__" THEN CallKwargs(kw) ELSE kw,
               attempt_number + 1, posts, waits, out)
    /\ UNCHANGED <<obj, ctor_args, engine, ctor_exc, ncalls, via, prompt, kw>>

Next ==
    \/ \E c \in CtorCalls :
          Construct(c.model_string, c.system_prompt, c.api_key, c.env, c.site_url,
                    c.site_name, c.kwargs)
    \/ \E p \in Str, k \in CallKws, out \in Outcomes : Generate(p, k, out)
    \/ \E p \in Str, k \in CallKws, out \in Outcomes : Call(p, k, out)
    \/ \E out \in Outcomes : Retry(out)

Spec == Init /\ [][Next]_vars

\* The calling thread keeps running: a backoff sleep lasts at most 5 s and a
\* POST at most its 30 s timeout, so the next attempt does come.
FairSpec == Spec /\ WF_vars(\E out \in Outcomes : Retry(out))

\* Model identifiers of several adapters on one disk.
ModelStrings ==
    {DefaultModelString,
     <<"deepseek", "_", "deepseek-chat-v3-0324:free">>,
     <<"deepseek", "/", "deepseek-r1">>}

NextModels ==
    \/ \E m \in ModelStrings :
          Construct(m, DEFAULT_SYSTEM_PROMPT, <<"sk-arg">>, None, None, None, EmptyDict)
    \/ \E m \in ModelStrings :
          NewAdapter(m, DEFAULT_SYSTEM_PROMPT, <<"sk-arg">>, None, None, None, EmptyDict)
    \/ \E p \in Str, k \in GenKwargs, out \in Outcomes : Generate(p, k, out)
    \/ \E p \in Str, k \in GenKwargs, out \in Outcomes : Call(p, k, out)
    \/ \E out \in Outcomes : Retry(out)

\* Adapters for different model identifiers, one after the other.
SpecModels == Init /\ [][NextModels]_vars

\* Keywords of a call that also name the payload's own keys: **kwargs takes
\* any keyword but system_prompt.
WideKwargs ==
    GenKwargs \cup {[model |-> <<"other", "/", "model">>],
                    [messages |-> Messages(<<"z">>, <<"z">>), temperature |-> "0.0"]}
CallKwsWide ==
    WideKwargs \cup {[system_prompt |-> s] : s \in {<<>>, <<"a">>}}
        \cup {[model |-> <<"other", "/", "model">>, system_prompt |-> <<"a">>]}

NextKw ==
    \/ \E c \in CtorCalls :
          Construct(c.model_string, c.system_prompt, c.api_key, c.env, c.site_url,
                    c.site_name, c.kwargs)
    \/ \E p \in Str, k \in CallKwsWide, out \in Outcomes : Generate(p, k, out)
    \/ \E p \in Str, k \in CallKwsWide, out \in Outcomes : Call(p, k, out)
    \/ \E out \in Outcomes : Retry(out)

\* The engine called with any keyword **kwargs accepts.
SpecKw == Init /\ [][NextKw]_vars

(* ------------------------- reading the state -------------------------- *)

\* The step is the invocation of generate or __call__ (with its first attempt).
Invocation == ncalls' = ncalls + 1
\* The step hands a request to requests.post.
PostStep == \/ Invocation /\ posts' = 1
            \/ ncalls' = ncalls /\ posts' = posts + 1
\* A 2xx response whose body holds choices[0].message.content.
Successful(r) == r.kind = "response" /\ r.status >= 200 /\ r.status < 300
                 /\ Len(r.choices) >= 1
\* A transport or API failure: the POST raised, or answered non-2xx.
TransportFailure(r) == r.kind = "exception" \/ (r.kind = "response" /\ r.status >= 400)
\* The text t occurs in the message m.
Includes(m, t) == \E i \in 0..(Len(m) - Len(t)) : SubSeq(m, i + 1, i + Len(t)) = t
\* The call in progress or just finished has been answered from the cache.
AnsweredFromCache == pc = "returned" /\ posts = 0
\* The last POST of the engine was a successful one for the (system prompt,
\* prompt) pair of the current call.
LastPostFilledThisPair ==
    /\ Successful(response)
    /\ request.json["messages"] = <<[role |-> "system", content |-> sys_prompt],
                                    [role |-> "user", content |-> prompt]>>

(* ------------------------------- claims ------------------------------- *)

\* C1: a call whose cache key (effective system prompt + prompt) is in the
\* store returns the stored text at once and hands nothing to requests.post,
\* whatever generation parameters are passed.
C1_CacheHitNoTransport ==
    [][ (Invocation /\ (sys_prompt' \o prompt') \in DOMAIN Store)
          => /\ pc' = "returned"
             /\ result' = Store[sys_prompt' \o prompt']
             /\ posts' = 0
             /\ request' = request /\ response' = response /\ disk' = disk ]_vars

C1_Witness ==
    /\ AnsweredFromCache
    /\ "temperature" \in DOMAIN kw
    /\ result = TextEmpty

\* C2: a POST that comes back successful makes generate return
\* choices[0].message.content and store it under the cache key; a later call
\* for the same pair, with no POST in between, returns that text from the
\* cache without a POST.
C2_MissThenHit ==
    [][ /\ (PostStep /\ Successful(response'))
            => /\ pc' = "returned"
               /\ result' = response'.choices[1]
               /\ (sys_prompt' \o prompt') \in DOMAIN disk'[engine.cache_path]
               /\ disk'[engine.cache_path][sys_prompt' \o prompt'] = result'
        /\ (Invocation /\ pc = "returned" /\ posts >= 1
                /\ sys_prompt' = sys_prompt /\ prompt' = prompt)
            => /\ pc' = "returned"
               /\ result' = result
               /\ posts' = 0
               /\ request' = request ]_vars

C2_Witness ==
    /\ ncalls = 2
    /\ AnsweredFromCache
    /\ LastPostFilledThisPair
    /\ result = response.choices[1]
    /\ result = TextX

\* C3: with N < 5 failed attempts behind it, an attempt whose POST succeeds
\* makes the call return the response's text with exactly N + 1 POSTs made;
\* an attempt whose POST fails is retried as long as fewer than 5 were made.
C3_RetryThenSuccess ==
    [][ PostStep =>
          /\ (~Invocation => posts = waits)
          /\ Successful(response')
                => /\ pc' = "returned"
                   /\ result' = response'.choices[1]
                   /\ waits' < 5
                   /\ posts' = waits' + 1
          /\ (~Successful(response') /\ posts' < 5)
                => /\ pc' = "sleeping"
                   /\ waits' = posts' ]_vars

C3_Witness ==
    /\ pc = "returned"
    /\ waits = 4
    /\ posts = 5
    /\ result = TextX

\* C4: a call ends in a raised failure only after exactly 5 POSTs, and no
\* call ever makes a 6th.
C4_ExhaustionAfterFive ==
    /\ posts <= 5
    /\ pc = "raised" => posts = 5 /\ attempt_number = 5 /\ ~Successful(response)
    /\ pc = "sleeping" => posts < 5

C4_Witness ==
    /\ pc = "raised"
    /\ posts = 5
    /\ response = ConnectionFailure

\* C5: after the retries are exhausted on transport failures, the exception
\* that reaches the caller is a RuntimeError whose message includes the text
\* of the last attempt's transport error.
C5_RuntimeErrorReachesCaller ==
    (pc = "raised" /\ TransportFailure(response))
        => /\ exc.type = "RuntimeError"
           /\ Includes(exc.msg, StrRequestException(response))

\* C6: when the constructor raises for want of a credential, no cache store
\* has been opened or created and nothing was posted.
C6_ErrorBeforeCacheAccess ==
    obj = "failed" => disk = EmptyDict /\ posts = 0 /\ request = NoRequest

\* C7: a cached text stays as it is, and every later call for the same pair
\* returns it, also when its generation parameters differ from those of the
\* request that filled the cache.
C7_StaleAcrossParameters ==
    [][ /\ obj = "ready"
            => \A k \in DOMAIN Store :
                   k \in DOMAIN disk'[engine.cache_path]
                   /\ disk'[engine.cache_path][k] = Store[k]
        /\ (Invocation /\ (sys_prompt' \o prompt') \in DOMAIN Store)
            => result' = Store[sys_prompt' \o prompt']
        /\ (Invocation /\ posts' = 0 /\ Successful(response)
                /\ request.json["messages"] =
                       <<[role |-> "system", content |-> sys_prompt'],
                         [role |-> "user", content |-> prompt']>>)
            => /\ pc' = "returned"
               /\ result' = response.choices[1] ]_vars

C7_Witness ==
    /\ AnsweredFromCache
    /\ LastPostFilledThisPair
    /\ result = response.choices[1]
    /\ "temperature" \in DOMAIN kw
    /\ request.json["temperature"] /= kw["temperature"]
    /\ "stop" \notin DOMAIN request.json

\* C8 as stated: whatever keywords are passed, a call through __call__ has
\* the instance default as its effective system prompt.
C8_CallAlwaysDefaultPrompt ==
    (via = "__call__") => sys_prompt = engine.system_prompt

\* C8 amended: __call__ forwards its keywords to generate unchanged, so the
\* effective system prompt is the instance default when no system_prompt
\* keyword is passed and the keyword's value when that is a non-empty string;
\* cache key and system message are built from it.
C8_CallForwardsKeywords ==
    (via = "__call__") =>
        /\ "system_prompt" \notin DOMAIN kw => sys_prompt = engine.system_prompt
        /\ ("system_prompt" \in DOMAIN kw /\ kw["system_prompt"] /= <<>>)
              => sys_prompt = kw["system_prompt"]
        /\ cache_key = sys_prompt \o prompt
        /\ posts >= 1 => request.json["messages"][1].content = sys_prompt

C8_Witness ==
    /\ via = "__call__"
    /\ "system_prompt" \in DOMAIN kw
    /\ kw["system_prompt"] = <<"a">>
    /\ sys_prompt = <<"a">>
    /\ engine.system_prompt = DEFAULT_SYSTEM_PROMPT
    /\ posts >= 1

\* C9: the effective system prompt of a call is the override whenever one is
\* passed, the empty string included, and the instance default otherwise.
C9_OverrideWheneverGiven ==
    (via /= "none") =>
        /\ sys_prompt = IF "system_prompt" \in DOMAIN kw
                        THEN kw["system_prompt"] ELSE engine.system_prompt
        /\ cache_key = sys_prompt \o prompt

\* C10: the generation parameters of every posted payload are the instance
\* defaults, each overridden by the keyword of the same name passed to the
\* call; other keys keep their default, and the defaults stay as constructed.
C10_ParameterMerge ==
    [][ /\ posts' >= 1 =>
              /\ \A k \in {"temperature", "max_tokens", "top_p"} :
                    request'.json[k] = IF k \in DOMAIN kw' THEN kw'[k]
                                       ELSE engine'.default_params[k]
              /\ \A k \in DOMAIN kw' \ {"system_prompt"} : request'.json[k] = kw'[k]
        /\ obj = "ready" => engine'.default_params = engine.default_params ]_vars

C10_Witness ==
    /\ posts >= 1
    /\ "temperature" \in DOMAIN kw
    /\ engine.default_params["temperature"] = "0.2"
    /\ request.json["temperature"] = "0.0"
    /\ request.json["top_p"] = "0.9"
    /\ request.json["max_tokens"] = "1024"

\* C11: the request of every attempt carries Authorization (Bearer + the
\* credential resolved at construction), Content-Type application/json,
\* HTTP-Referer (site_url or its default) and X-Title (site_name or its
\* default), and no call changes the instance's headers.
C11_Headers ==
    [][ /\ PostStep =>
              request'.headers =
                  [Authorization |-> <<"Bearer ">> \o
                        (IF ctor_args.api_key \notin {None, <<>>}
                         THEN ctor_args.api_key ELSE ctor_args.env),
                   ContentType |-> <<"application/json">>,
                   HTTPReferer |-> IF ctor_args.site_url \in {None, <<>>}
                                   THEN <<"https://example.com">>
                                   ELSE ctor_args.site_url,
                   XTitle |-> IF ctor_args.site_name \in {None, <<>>}
                              THEN <<"TextGrad App">> ELSE ctor_args.site_name]
        /\ obj = "ready" => engine'.headers = engine.headers /\ ctor_args' = ctor_args ]_vars

C11_Witness ==
    /\ posts >= 2
    /\ ncalls = 2
    /\ request.headers["Authorization"] = <<"Bearer ", "sk-env">>
    /\ request.headers["HTTPReferer"] = <<"https://example.com">>
    /\ request.headers["XTitle"] = <<"My App">>
    /\ ctor_args.api_key = <<>>

\* C12: whatever keywords a call passes, the payload of every request has the
\* model identifier fixed at construction as its model and exactly the
\* messages [system: effective system prompt, user: prompt].
C12_PayloadIdentity ==
    posts >= 1 =>
        /\ request.json["model"] = engine.model_string
        /\ request.json["model"] = ctor_args.model_string
        /\ request.json["messages"] = <<[role |-> "system", content |-> sys_prompt],
                                        [role |-> "user", content |-> prompt]>>

\* C13: a 2xx response whose JSON lacks choices[0].message.content makes the
\* call fail with the indexing/key error reaching the caller; it is not
\* handled as a transient failure (no sleep, no further attempt).
C13_MalformedPropagates ==
    (posts >= 1 /\ response.kind = "response" /\ response.status >= 200
        /\ response.status < 300 /\ response.choices = <<>>)
        => /\ pc = "raised"
           /\ exc.type \in {"IndexError", "KeyError"}
           /\ posts = 1
           /\ waits = 0

\* C14: every call ends, returning a string or raising, after at most 5 POSTs
\* and at most 4 backoff sleeps; a sleep only follows a failed attempt and is
\* followed by the next attempt of the same call.
C14_BoundedWork ==
    /\ [](/\ posts <= 5
          /\ waits <= 4
          /\ pc = "sleeping" => waits = posts /\ exc.type /= "None"
          /\ (pc \in {"returned", "raised"} /\ posts >= 1) => waits = posts - 1
          /\ pc = "returned" => result /= None /\ exc.type = "None"
          /\ pc = "raised" => result = None /\ exc.type /= "None")
    /\ [][ /\ (pc = "sleeping")
                 => (/\ ncalls' = ncalls /\ prompt' = prompt /\ kw' = kw
                     /\ attempt_number' = attempt_number + 1
                     /\ posts' = posts + 1)
           /\ Invocation => pc' \in {"sleeping", "returned", "raised"} ]_vars
    /\ (pc = "sleeping") ~> (pc \in {"returned", "raised"})

C14_Witness ==
    /\ pc = "raised"
    /\ posts = 5
    /\ waits = 4
    /\ response = MalformedResponse

\* C15: when an attempt fails on a non-2xx response, the message composed
\* for that attempt holds the underlying error text, the HTTP status code
\* and the response body text.
C15_StatusInMessage ==
    (pc = "sleeping" /\ response.kind = "response" /\ response.status >= 400)
        => /\ exc.type = "RuntimeError"
           /\ Includes(exc.msg, StrRequestException(response))
           /\ Includes(exc.msg, <<" | Status: ", ToString(response.status)>>)
           /\ Includes(exc.msg, response.text)

\* C16: adapters constructed with different model identifiers have different
\* cache paths, so a text an adapter returns from the cache was cached by an
\* adapter of the same model identifier.
C16_CacheScopedByModel ==
    AnsweredFromCache
        => origin[engine.cache_path][cache_key].model = engine.model_string

\* C17: a text returned from the cache was stored from the response to a
\* request whose system and user message are the current call's effective
\* system prompt and prompt: distinct pairs never share a cache entry.
C17_CacheProvenance ==
    AnsweredFromCache
        => /\ origin[engine.cache_path][cache_key].system = sys_prompt
           /\ origin[engine.cache_path][cache_key].user = prompt

\* C18: an attempt that fails, and so a call that ends raised, leaves the
\* cache store as it was; the store is written only by the step in which the
\* call returns, once, and only with the text returned.
C18_NoWriteOnFailure ==
    [][ /\ (PostStep /\ ~Successful(response')) => disk' = disk
        /\ pc' \in {"sleeping", "raised"} => disk' = disk
        /\ (obj = "ready" /\ disk' /= disk)
              => /\ PostStep
                 /\ pc' = "returned"
                 /\ (sys_prompt' \o prompt') \notin DOMAIN Store
                 /\ disk' = [disk EXCEPT ![engine.cache_path] =
                                 [k \in DOMAIN @ \cup {sys_prompt' \o prompt'} |->
                                     IF k = sys_prompt' \o prompt' THEN result'
                                     ELSE @[k]]] ]_vars

C18_Witness ==
    /\ pc = "raised"
    /\ ncalls = 2
    /\ response.status = 500
    /\ Cardinality(DOMAIN Store) = 1

\* C19: a cached key is never removed and its text never overwritten; the
\* keys grow only by the key of a call that missed and whose POST succeeded.
C19_WriteOnce ==
    [][ obj = "ready" =>
          /\ DOMAIN disk' = DOMAIN disk
          /\ \A k \in DOMAIN Store :
                 /\ k \in DOMAIN disk'[engine.cache_path]
                 /\ disk'[engine.cache_path][k] = Store[k]
          /\ \A k \in DOMAIN disk'[engine.cache_path] \ DOMAIN Store :
                 /\ k = sys_prompt' \o prompt'
                 /\ PostStep
                 /\ Successful(response')
                 /\ pc' = "returned" ]_vars

C19_Witness ==
    /\ ncalls = 2
    /\ pc = "returned"
    /\ posts >= 2
    /\ Cardinality(DOMAIN Store) = 2

====
